---- MODULE Spec2Model ----
(***************************************************************************)
(* gateway-reqwest: ReqwestService, the reqwest-backed implementation of   *)
(* gateway::Service.  The model covers construction (with_url) and the     *)
(* exec pipeline: build_path -> get -> extract_text -> validate_status ->  *)
(* parse_response -> the final match that builds the ServiceResult.        *)
(*                                                                         *)
(* Strings are sequences of lexical tokens (url text) or literal texts     *)
(* (response bodies); the url and serde_json collaborators are modelled by *)
(* what they compute on those.                                             *)
(***************************************************************************)
EXTENDS Integers, Sequences, FiniteSets, TLC

VARIABLES
    svc,        \* the ReqwestService value, or None before construction
    ctor,       \* what the last with_url call was given and what it returned
    backing,    \* the backing service: what a GET that reaches it produces
    pc,         \* position of the (single, synchronous) exec call
    req,        \* the request value passed to exec
    url,        \* exec_request: the joined target url
    resp,       \* the reqwest::Response handle
    text,       \* the body text read by extract_text
    result,     \* the local `result` of exec
    outcome,    \* the ServiceResult returned by exec
    trace,      \* the functions and decodes run by the current call, in order
    net,        \* number of GETs issued since the start
    remembered  \* an earlier completed call, kept for comparison

vars == <<svc, ctor, backing, pc, req, url, resp, text, result, outcome, trace, net, remembered>>

\* Bound: GETs issued over the whole run.
MaxGets == 2

\* Option / Result values
None == [tag |-> "None"]
Some(v) == [tag |-> "Some", val |-> v]
Ok(v) == [tag |-> "Ok", val |-> v]
Err(e) == [tag |-> "Err", err |-> e]

(***************************************************************************)
(* url crate: parsing and joining, over token sequences                    *)
(***************************************************************************)
Schemes == {"http", "mailto"}
SpecialSchemes == {"http"}

HasScheme(s) == Len(s) >= 2 /\ s[1] \in Schemes /\ s[2] = ":"

RECURSIVE StripSlashes(_)
StripSlashes(s) == IF s # <<>> /\ Head(s) = "/" THEN StripSlashes(Tail(s)) ELSE s

RECURSIVE DropLastSegment(_)
DropLastSegment(p) ==
    IF p = <<>> \/ p[Len(p)] = "/" THEN p
    ELSE DropLastSegment(SubSeq(p, 1, Len(p) - 1))

\* Url::parse on an input that starts with a scheme.
parse_with_scheme(s) ==
    LET scheme == s[1]
        rest == SubSeq(s, 3, Len(s))
    IN IF scheme \in SpecialSchemes
       THEN LET r == StripSlashes(rest)
            IN IF r = <<>>
               THEN Err("EmptyHost")
               ELSE Ok([scheme |-> scheme, cannot_be_a_base |-> FALSE, host |-> r[1],
                        path |-> IF Tail(r) = <<>> THEN <<"/">> ELSE Tail(r)])
       ELSE IF rest # <<>> /\ rest[1] = "/"
            THEN Ok([scheme |-> scheme, cannot_be_a_base |-> FALSE, host |-> "", path |-> rest])
            ELSE Ok([scheme |-> scheme, cannot_be_a_base |-> TRUE, host |-> "", path |-> rest])

\* Url::parse(input), no base
url_parse(s) ==
    IF HasScheme(s) THEN parse_with_scheme(s) ELSE Err("RelativeUrlWithoutBase")

\* Url::join(&self, input)
url_join(base, input) ==
    IF HasScheme(input) THEN parse_with_scheme(input)
    ELSE IF base.cannot_be_a_base THEN Err("RelativeUrlWithCannotBeABaseBase")
    ELSE IF input = <<>> THEN Ok(base)
    ELSE IF Len(input) >= 2 /\ input[1] = "/" /\ input[2] = "/"
         THEN parse_with_scheme(<<base.scheme, ":">> \o input)
    ELSE IF input[1] = "/" THEN Ok([base EXCEPT !.path = input])
    ELSE Ok([base EXCEPT !.path = DropLastSegment(base.path) \o input])

\* Url::as_str
as_str(u) ==
    IF u.cannot_be_a_base THEN <<u.scheme, ":">> \o u.path
    ELSE <<u.scheme, ":", "/", "/", u.host>> \o u.path

\* gateway::parse_url: Url::parse with the error wrapped in gateway::Error::UrlParseFailed
parse_url(url_str) ==
    LET r == url_parse(url_str)
    IN IF r.tag = "Ok" THEN r ELSE Err([kind |-> "UrlParseFailed", cause |-> r.err])

\* with_url changed to fall back to a fixed address when parsing fails
with_url_default(url_str) ==
    LET r == parse_url(url_str)
    IN IF r.tag = "Ok" THEN Ok([url |-> r.val])
       ELSE Ok([url |-> [scheme |-> "http", cannot_be_a_base |-> FALSE, host |-> "h", path |-> <<"/">>]])

\* ReqwestService::with_url
with_url(url_str) ==
    LET r == parse_url(url_str)
    IN IF r.tag = "Ok" THEN Ok([url |-> r.val]) ELSE r

\* base addresses handed to with_url
UrlStrs == {
    <<>>,
    <<"a">>,
    <<"/", "a">>,
    <<"http", ":", "/", "/">>,
    <<"http", ":", "/", "/", "h">>,
    <<"http", ":", "/", "/", "h", "/", "a", "/">>,
    <<"mailto", ":", "a">> }

\* the inputs among them that have no scheme: empty or relative
RelativeUrlStrs == { <<>>, <<"a">>, <<"/", "a">> }

(***************************************************************************)
(* serde_json::from_str::<T>, for the payload types of the endpoints       *)
(***************************************************************************)
\* u16::MAX, the range of TempResponse.foo
U16Max == 65535

\* the payload types: the fields a struct declares, all of them required
TypeDef(T) ==
    CASE T = "UnitResult"   -> [kind |-> "struct", fields |-> [f \in {} |-> "u16"]]
      [] T = "UnitError"    -> [kind |-> "struct", fields |-> [f \in {} |-> "u16"]]
      [] T = "TempResponse" -> [kind |-> "struct", fields |-> [f \in {"foo"} |-> "u16"]]
      [] T = "()"           -> [kind |-> "unit"]

\* impl Endpoint: the TResponse and TError of each request type (exec is generic
\* in them; PathRequest pairs TempResponse with UnitError)
Endpoint(ep) ==
    CASE ep = "Unit"        -> [TResponse |-> "UnitResult", TError |-> "UnitError"]
      [] ep = "PathRequest" -> [TResponse |-> "TempResponse", TError |-> "UnitError"]
      [] ep = "TempRequest"    -> [TResponse |-> "TempResponse", TError |-> "()"]

Num(n) == [t |-> "num", n |-> n]
Str(x) == [t |-> "str", s |-> x]

\* the JSON document a body text holds, or the syntax error of reading it
json_value(txt) ==
    CASE txt = ""                        -> Err("EofWhileParsingValue")
      [] txt = "foo=bar"                 -> Err("ExpectedSomeIdent")
      [] txt = "null"                    -> Ok([kind |-> "null"])
      [] txt = "{}"                      -> Ok([kind |-> "map", fields |-> [f \in {} |-> Num(0)]])
      [] txt = "{\"foo\":10}"            -> Ok([kind |-> "map", fields |-> [f \in {"foo"} |-> Num(10)]])
      [] txt = "{\"foo\":70000}"         -> Ok([kind |-> "map", fields |-> [f \in {"foo"} |-> Num(70000)]])
      [] txt = "{\"foo\":\"x\"}"         -> Ok([kind |-> "map", fields |-> [f \in {"foo"} |-> Str("x")]])
      [] txt = "{\"foo\":10,\"bar\":1}"  -> Ok([kind |-> "map", fields |-> [f \in {"foo", "bar"} |->
                                                   IF f = "foo" THEN Num(10) ELSE Num(1)]])

\* Deserialize for T from a JSON document: unknown fields are ignored, a
\* declared field must be present, of the declared type and in its range.
deserialize(T, v) ==
    LET def == TypeDef(T)
    IN IF def.kind = "unit"
       THEN IF v.kind = "null" THEN Ok([type |-> T]) ELSE Err("InvalidType")
       ELSE IF v.kind # "map" THEN Err("InvalidType")
       ELSE LET declared == DOMAIN def.fields
                present == declared \cap DOMAIN v.fields
            IN IF \E f \in present : v.fields[f].t # "num"
               THEN Err("InvalidType")
               ELSE IF \E f \in present : v.fields[f].n < 0 \/ v.fields[f].n > U16Max
               THEN Err("InvalidValue")
               ELSE IF present # declared
               THEN Err("MissingField")
               ELSE Ok([type |-> T, fields |-> [f \in declared |-> v.fields[f].n]])

\* serde_json::from_str::<T>(&text)
from_str(T, txt) ==
    LET j == json_value(txt)
    IN IF j.tag = "Err" THEN j ELSE deserialize(T, j.val)

(***************************************************************************)
(* The backing service and the requests                                    *)
(***************************************************************************)
\* the one status validate_status accepts
SuccessStatus == 200

Statuses == {200, 404, 500}

Texts == {"", "{}", "foo=bar", "null", "{\"foo\":10}", "{\"foo\":70000}",
          "{\"foo\":\"x\"}", "{\"foo\":10,\"bar\":1}"}

\* a response body: a stream that reads as a text, or fails to read
Bodies == {[readable |-> TRUE, content |-> t] : t \in Texts}
            \cup {[readable |-> FALSE, content |-> ""]}

\* what the transport does with a GET: no connection, or a status and a body
Backings == {[transport |-> "refused"]}
              \cup {[transport |-> "ok", status |-> st, body |-> b] : st \in Statuses, b \in Bodies}

\* request values: Unit and TempRequest convert to the empty path (their From
\* impls); PathRequest stands for a request type that converts to the path it
\* carries
Requests == {[ep |-> "Unit", path |-> <<>>]}
              \cup {[ep |-> "PathRequest", path |-> p] :
                      p \in {<<>>, <<"b">>, <<"/", "/">>, <<"mailto", ":", "a">>}}
              \cup {[ep |-> "TempRequest", path |-> <<>>]}

\* TRequest: Into<Request>
into(r) == [variant |-> "Get", path |-> r.path]

(***************************************************************************)
(* The stages of exec                                                      *)
(***************************************************************************)
build_path(u, path) ==
    LET j == url_join(u, path)
    IN IF j.tag = "Ok" THEN j ELSE Err([kind |-> "AppendPathFailed", cause |-> j.err])

\* reqwest::get(url.as_str()): the text is parsed again and must name a host;
\* `sent` tells whether a request went out on the network
get(u, b) ==
    LET p == url_parse(as_str(u))
    IN IF p.tag = "Err" \/ p.val.cannot_be_a_base \/ p.val.host = ""
       THEN [res |-> Err([kind |-> "RequestFailed", cause |-> "UrlBadScheme"]), sent |-> FALSE]
       ELSE IF b.transport # "ok"
       THEN [res |-> Err([kind |-> "RequestFailed", cause |-> b.transport]), sent |-> TRUE]
       ELSE [res |-> Ok([status |-> b.status, body |-> b.body]), sent |-> TRUE]

\* extract_text changed to read an unreadable body as the empty text
extract_text_lossy(response) ==
    IF response.body.readable THEN Ok(response.body.content) ELSE Ok("")

extract_text(response) ==
    IF response.body.readable
    THEN Ok(response.body.content)
    ELSE Err([kind |-> "ReadBodyFailed"])

\* validate_status with the comparison inverted
validate_status_inverted(TError, status, txt) ==
    IF status # SuccessStatus
    THEN [res |-> Ok(txt), decodes |-> <<>>]
    ELSE [res |-> Err([e |-> [kind |-> "ResultFailed", payload |-> txt],
                       opt |-> Some(from_str(TError, txt))]),
          decodes |-> <<"from_str<TError>">>]

\* validate_status changed to drop the body on the failure path
validate_status_discards_body(TError, status, txt) ==
    IF status = SuccessStatus
    THEN [res |-> Ok(txt), decodes |-> <<>>]
    ELSE [res |-> Err([e |-> [kind |-> "ResultFailed", payload |-> txt], opt |-> None]),
          decodes |-> <<>>]

\* `decodes` lists the from_str calls made, in order
validate_status(TError, status, txt) ==
    IF status = SuccessStatus
    THEN [res |-> Ok(txt), decodes |-> <<>>]
    ELSE [res |-> Err([e |-> [kind |-> "ResultFailed", payload |-> txt],
                       opt |-> Some(from_str(TError, txt))]),
          decodes |-> <<"from_str<TError>">>]

\* parse_response changed to leave out the error-type decode
parse_response_drops_error(TResponse, TError, txt) ==
    LET r == from_str(TResponse, txt)
    IN IF r.tag = "Ok"
       THEN [res |-> r, decodes |-> <<"from_str<TResponse>">>]
       ELSE [res |-> Err([e |-> [kind |-> "InvalidPayload", serde_error |-> r.err, payload |-> txt],
                          opt |-> None]),
             decodes |-> <<"from_str<TResponse>">>]

\* parse_response changed to decode the error type before it is needed
parse_response_eager(TResponse, TError, txt) ==
    LET r == from_str(TResponse, txt)
        e == from_str(TError, txt)
    IN IF r.tag = "Ok"
       THEN [res |-> r, decodes |-> <<"from_str<TResponse>", "from_str<TError>">>]
       ELSE [res |-> Err([e |-> [kind |-> "InvalidPayload", serde_error |-> r.err, payload |-> txt],
                          opt |-> Some(e)]),
             decodes |-> <<"from_str<TResponse>", "from_str<TError>">>]

parse_response(TResponse, TError, txt) ==
    LET r == from_str(TResponse, txt)
    IN IF r.tag = "Ok"
       THEN [res |-> r, decodes |-> <<"from_str<TResponse>">>]
       ELSE [res |-> Err([e |-> [kind |-> "InvalidPayload", serde_error |-> r.err, payload |-> txt],
                          opt |-> Some(from_str(TError, txt))]),
             decodes |-> <<"from_str<TResponse>", "from_str<TError>">>]

\* the final match changed to drop the decode error of the error type
service_result_drops_serde(res) ==
    IF res.tag = "Ok" THEN [tag |-> "Ok", val |-> res.val]
    ELSE IF res.err.opt = None THEN [tag |-> "Fail", svc_err |-> res.err.e, serde |-> None]
    ELSE IF res.err.opt.val.tag = "Ok"
         THEN [tag |-> "Err", svc_err |-> res.err.e, err |-> res.err.opt.val.val]
         ELSE [tag |-> "Fail", svc_err |-> res.err.e, serde |-> None]

\* the final match of exec
service_result(res) ==
    IF res.tag = "Ok" THEN [tag |-> "Ok", val |-> res.val]
    ELSE IF res.err.opt = None THEN [tag |-> "Fail", svc_err |-> res.err.e, serde |-> None]
    ELSE IF res.err.opt.val.tag = "Ok"
         THEN [tag |-> "Err", svc_err |-> res.err.e, err |-> res.err.opt.val.val]
         ELSE [tag |-> "Fail", svc_err |-> res.err.e, serde |-> Some(res.err.opt.val.err)]

(***************************************************************************)
(* State machine                                                           *)
(***************************************************************************)
Init ==
    /\ svc = None
    /\ ctor = None
    /\ backing \in Backings
    /\ pc = "idle"
    /\ req = None
    /\ url = None
    /\ resp = None
    /\ text = None
    /\ result = None
    /\ outcome = None
    /\ trace = <<>>
    /\ net = 0
    /\ remembered = None

\* ReqwestService::with_url(url_str)
With_url ==
    /\ pc = "idle"
    /\ svc = None
    /\ \E s \in UrlStrs :
         LET r == with_url(s)
         IN /\ ctor' = [input |-> s, ret |-> r]
            /\ svc' = IF r.tag = "Ok" THEN r.val ELSE None
    /\ UNCHANGED <<backing, pc, req, url, resp, text, result, outcome, trace, net, remembered>>

\* svc.exec(req) is entered
Exec_call ==
    /\ pc = "idle"
    /\ svc # None
    /\ net < MaxGets
    /\ \E r \in Requests : req' = r
    /\ pc' = "exec_request"
    /\ UNCHANGED <<svc, ctor, backing, url, resp, text, result, outcome, trace, net, remembered>>

\* exec_request changed to join the path onto the service's own url in place
Exec_build_path_in_place ==
    /\ pc = "exec_request"
    /\ LET j == build_path(svc.url, into(req).path)
       IN IF j.tag = "Ok"
          THEN url' = j.val /\ svc' = [url |-> j.val] /\ pc' = "get" /\ UNCHANGED result
          ELSE result' = Err([e |-> j.err, opt |-> None]) /\ pc' = "match" /\ UNCHANGED <<url, svc>>
    /\ trace' = Append(trace, "build_path")
    /\ UNCHANGED <<ctor, backing, req, resp, text, outcome, net, remembered>>

\* exec_request, first half: build_path(svc.url.to_owned(), path)
Exec_build_path ==
    /\ pc = "exec_request"
    /\ LET j == build_path(svc.url, into(req).path)
       IN IF j.tag = "Ok"
          THEN url' = j.val /\ pc' = "get" /\ UNCHANGED result
          ELSE result' = Err([e |-> j.err, opt |-> None]) /\ pc' = "match" /\ UNCHANGED url
    /\ trace' = Append(trace, "build_path")
    /\ UNCHANGED <<svc, ctor, backing, req, resp, text, outcome, net, remembered>>

\* get changed to try a failed request a second time
Exec_get_retry ==
    /\ pc = "get"
    /\ LET g == get(url, backing)
       IN /\ net' = IF g.sent THEN net + 1 ELSE net
          /\ IF g.res.tag = "Ok"
             THEN resp' = g.res.val /\ pc' = "extract_text" /\ UNCHANGED result
             ELSE IF ~(\E i \in 1..Len(trace) : trace[i] = "get")
             THEN pc' = "get" /\ UNCHANGED <<result, resp>>
             ELSE result' = Err([e |-> g.res.err, opt |-> None]) /\ pc' = "match" /\ UNCHANGED resp
    /\ trace' = Append(trace, "get")
    /\ UNCHANGED <<svc, ctor, backing, req, url, text, outcome, remembered>>

\* exec_request, second half: .and_then(get)
Exec_get ==
    /\ pc = "get"
    /\ LET g == get(url, backing)
       IN /\ net' = IF g.sent THEN net + 1 ELSE net
          /\ IF g.res.tag = "Ok"
             THEN resp' = g.res.val /\ pc' = "extract_text" /\ UNCHANGED result
             ELSE result' = Err([e |-> g.res.err, opt |-> None]) /\ pc' = "match" /\ UNCHANGED resp
    /\ trace' = Append(trace, "get")
    /\ UNCHANGED <<svc, ctor, backing, req, url, text, outcome, remembered>>

\* extract_text(resp).map_err(|err| (err, None))
Exec_extract_text ==
    /\ pc = "extract_text"
    /\ LET t == extract_text(resp)
       IN IF t.tag = "Ok"
          THEN text' = t.val /\ pc' = "validate_status" /\ UNCHANGED result
          ELSE result' = Err([e |-> t.err, opt |-> None]) /\ pc' = "match" /\ UNCHANGED text
    /\ trace' = Append(trace, "extract_text")
    /\ UNCHANGED <<svc, ctor, backing, req, url, resp, outcome, net, remembered>>

\* .and_then(|text| validate_status(status, text))
Exec_validate_status ==
    /\ pc = "validate_status"
    /\ LET v == validate_status(Endpoint(req.ep).TError, resp.status, text)
       IN /\ IF v.res.tag = "Ok"
             THEN text' = v.res.val /\ pc' = "parse_response" /\ UNCHANGED result
             ELSE result' = v.res /\ pc' = "match" /\ UNCHANGED text
          /\ trace' = Append(trace, "validate_status") \o v.decodes
    /\ UNCHANGED <<svc, ctor, backing, req, url, resp, outcome, net, remembered>>

\* .and_then(parse_response)
Exec_parse_response ==
    /\ pc = "parse_response"
    /\ LET v == parse_response(Endpoint(req.ep).TResponse, Endpoint(req.ep).TError, text)
       IN /\ result' = v.res
          /\ trace' = Append(trace, "parse_response") \o v.decodes
    /\ pc' = "match"
    /\ UNCHANGED <<svc, ctor, backing, req, url, resp, text, outcome, net, remembered>>

\* match result { ... }: the ServiceResult is built
Exec_match ==
    /\ pc = "match"
    /\ outcome' = service_result(result)
    /\ pc' = "done"
    /\ UNCHANGED <<svc, ctor, backing, req, url, resp, text, result, trace, net, remembered>>

\* exec returns and its locals go out of scope; the caller may keep the call
\* and its outcome for comparison
Exec_return ==
    /\ pc = "done"
    /\ pc' = "idle"
    /\ \/ UNCHANGED remembered
       \/ /\ remembered = None
          /\ remembered' = [req |-> req, backing |-> backing, outcome |-> outcome]
    /\ req' = None /\ url' = None /\ resp' = None /\ text' = None
    /\ result' = None /\ outcome' = None /\ trace' = <<>>
    /\ UNCHANGED <<svc, ctor, backing, net>>

\* the backing service changes what it answers, between calls
SetBacking ==
    /\ pc = "idle"
    /\ \E b \in Backings \ {backing} : backing' = b
    /\ UNCHANGED <<svc, ctor, pc, req, url, resp, text, result, outcome, trace, net, remembered>>

Next ==
    \/ With_url
    \/ Exec_call
    \/ Exec_build_path
    \/ Exec_get
    \/ Exec_extract_text
    \/ Exec_validate_status
    \/ Exec_parse_response
    \/ Exec_match
    \/ Exec_return
    \/ SetBacking

Spec == Init /\ [][Next]_vars

(***************************************************************************)
(* Vocabulary of the properties                                            *)
(***************************************************************************)
Done == pc = "done"

TResponseOf == Endpoint(req.ep).TResponse
TErrorOf == Endpoint(req.ep).TError

Ran(e) == \E i \in 1..Len(trace) : trace[i] = e

\* the call received a response and read its body
BodyRead == resp # None /\ resp.body.readable
BodyText == resp.body.content

SuccessDecode == from_str(TResponseOf, BodyText)
ErrorDecode == from_str(TErrorOf, BodyText)

\* the three ways a call ends before any decode, told from the call's inputs
JoinFails == url_join(svc.url, req.path).tag = "Err"
TransportFails ==
    /\ ~JoinFails
    /\ get(url_join(svc.url, req.path).val, backing).res.tag = "Err"
BodyReadFails ==
    /\ ~JoinFails
    /\ ~TransportFails
    /\ ~backing.body.readable

Stages == <<"build_path", "get", "extract_text", "validate_status", "parse_response">>
IsStage(e) == \E i \in 1..Len(Stages) : Stages[i] = e
StagesRun == SelectSeq(trace, IsStage)

C3_SuccessDecoded ==
    (Done /\ BodyRead /\ resp.status = SuccessStatus /\ SuccessDecode.tag = "Ok")
        => /\ outcome = [tag |-> "Ok", val |-> SuccessDecode.val]
           /\ ~Ran("from_str<TError>")

C3_Witness ==
    /\ Done /\ req.ep = "PathRequest"
    /\ BodyRead /\ resp.status = SuccessStatus /\ BodyText = "{\"foo\":10,\"bar\":1}"
    /\ outcome.tag = "Ok" /\ outcome.val.fields["foo"] = 10
    /\ Ran("from_str<TResponse>")

(***************************************************************************)
(* C4                                                                      *)
(***************************************************************************)
\* C4: a response with any status other than 200 whose body decodes as the
\* error payload ends in Err(ResultFailed, decoded error payload), and the
\* call never decodes the body as the success payload.
C4_ApplicationError ==
    (Done /\ BodyRead /\ resp.status # SuccessStatus /\ ErrorDecode.tag = "Ok")
        => /\ outcome.tag = "Err"
           /\ outcome.svc_err = [kind |-> "ResultFailed", payload |-> BodyText]
           /\ outcome.err = ErrorDecode.val
           /\ ~Ran("from_str<TResponse>")

C4_Witness ==
    /\ Done /\ BodyRead /\ resp.status = 404 /\ BodyText = "{}"
    /\ req.ep = "Unit"
    /\ outcome.tag = "Err" /\ outcome.err = [type |-> "UnitError", fields |-> [f \in {} |-> 0]]
    /\ Ran("from_str<TError>")

C6_AsStated ==
    (Done /\ BodyRead /\ resp.status = 404 /\ BodyText = "")
        => /\ outcome.tag = "Fail"
           /\ outcome.svc_err.kind = "ResultFailed"
           /\ outcome.serde = None

(***************************************************************************)
(* C7                                                                      *)
(***************************************************************************)
\* a from_str call of this call was made and returned an error
DecodeAttemptedAndFailed ==
    \/ Ran("from_str<TResponse>") /\ from_str(TResponseOf, text).tag = "Err"
    \/ Ran("from_str<TError>") /\ from_str(TErrorOf, text).tag = "Err"

\* C7: a call that fails at the path join, at the transport or at reading
\* the body ends in Fail with AppendPathFailed, RequestFailed or
\* ReadBodyFailed and decode error None; and a Fail carries Some decode error
\* exactly when a decode was attempted and failed.
C7_DecodeErrorPopulated ==
    Done =>
        /\ JoinFails =>
              /\ outcome.tag = "Fail" /\ outcome.serde = None
              /\ outcome.svc_err.kind = "AppendPathFailed"
        /\ TransportFails =>
              /\ outcome.tag = "Fail" /\ outcome.serde = None
              /\ outcome.svc_err.kind = "RequestFailed"
        /\ BodyReadFails =>
              /\ outcome.tag = "Fail" /\ outcome.serde = None
              /\ outcome.svc_err.kind = "ReadBodyFailed"
        /\ outcome.tag = "Fail" =>
              (outcome.serde # None <=> DecodeAttemptedAndFailed)

C7_Witness ==
    /\ Done /\ BodyReadFails
    /\ outcome = [tag |-> "Fail", svc_err |-> [kind |-> "ReadBodyFailed"], serde |-> None]

(***************************************************************************)
(* C8                                                                      *)
(***************************************************************************)
\* C8: with_url on an empty or relative base address returns the error
\* UrlParseFailed(RelativeUrlWithoutBase), no service exists afterwards, and
\* no GET has been issued.
C8_CtorRejectsRelative ==
    (ctor # None /\ ctor.input \in RelativeUrlStrs)
        => /\ ctor.ret = Err([kind |-> "UrlParseFailed", cause |-> "RelativeUrlWithoutBase"])
           /\ svc = None
           /\ net = 0

C8_Witness ==
    /\ ctor # None /\ ctor.input = <<>>
    /\ ctor.ret.tag = "Err" /\ ctor.ret.err.cause = "RelativeUrlWithoutBase"
    /\ svc = None

(***************************************************************************)
(* C9                                                                      *)
(***************************************************************************)
\* C9: a call that repeats an earlier call of the same service against the
\* same backing response returns the same ServiceResult, whatever calls were
\* made in between, and the service still holds the url it was built with.
C9_Idempotent ==
    /\ (Done /\ remembered # None /\ remembered.req = req /\ remembered.backing = backing)
          => outcome = remembered.outcome
    /\ svc # None => (ctor.ret.tag = "Ok" /\ svc = ctor.ret.val)

C9_Witness ==
    /\ Done /\ remembered # None /\ remembered.req = req /\ remembered.backing = backing
    /\ net = 2
    /\ outcome.tag = "Err" /\ remembered.outcome.tag = "Err"

(***************************************************************************)
(* C10                                                                     *)
(***************************************************************************)
\* C10: within a call the functions run in the order build_path, get,
\* extract_text, validate_status, parse_response, each at most once; get does
\* not run after AppendPathFailed; validate_status and the decodes do not run
\* after RequestFailed or ReadBodyFailed; the success-type decode does not
\* run after a non-success status.
C10_StageOrder ==
    /\ Len(StagesRun) <= Len(Stages)
    /\ StagesRun = SubSeq(Stages, 1, Len(StagesRun))
    /\ (result # None /\ result.tag = "Err") =>
          /\ result.err.e.kind = "AppendPathFailed" => ~Ran("get")
          /\ result.err.e.kind \in {"RequestFailed", "ReadBodyFailed"} =>
                /\ ~Ran("validate_status") /\ ~Ran("parse_response")
                /\ ~Ran("from_str<TResponse>") /\ ~Ran("from_str<TError>")
    /\ (resp # None /\ resp.status # SuccessStatus) =>
          /\ ~Ran("parse_response") /\ ~Ran("from_str<TResponse>")

C10_Witness ==
    /\ Done
    /\ trace = <<"build_path", "get", "extract_text", "validate_status",
                 "parse_response", "from_str<TResponse>", "from_str<TError>">>

====
